---- MODULE Spec2Model ----
(***************************************************************************)
(* petelka-api: the cache-aside repositories (PostgreSQL rows + Redis      *)
(* snapshots), the services in front of them, and the HTTP pipeline of     *)
(* main: CORS, AuthMiddleware, AdminMiddleware, handlers.                  *)
(*                                                                         *)
(* The five repositories share no table and no key prefix ("user:<id>",    *)
(* "product:<id>", ...), so one behaviour exercises one of them: rt is     *)
(* drawn in Init and never changes.  A task is one request-handling        *)
(* goroutine; its steps are the database and cache calls of the method it  *)
(* runs, which are the only points where goroutines interleave.            *)
(***************************************************************************)
EXTENDS Integers, FiniteSets, Sequences, TLC

VARIABLES rt, db, nextId, cache, cacheUp, proc, hist, pre, look

vars == <<rt, db, nextId, cache, cacheUp, proc, hist, pre, look>>

\* What an action of the program can change; hist, pre and look are history
\* variables.
prog == <<rt, db, nextId, cache, cacheUp, proc>>

\* ---------------------------------------------------------------- bounds
MaxId == 2
MaxVal == 2

Tasks == {1, 2}
ResourceTypes == {"user", "product", "category", "order", "comment"}
Ids == 1..MaxId
Vals == 1..MaxVal
Emails == {"a@x.com", "b@x.com"}
Roles == {"user", "admin"}
Passwords == {"", "pw1", "pw2"}

\* ------------------------------------------------------------ credentials
\* A credential is a text and the number of times bcrypt was applied to it.
Plain(p) == [hashed |-> 0, text |-> p]

GenerateFromPassword(c) == [hashed |-> c.hashed + 1, text |-> c.text]

CompareHashAndPassword(h, p) == h.hashed = 1 /\ h.text = p

\* jwtKey: the HMAC key read from JWT_SECRET; Issuer: what Login puts in "iss".
jwtKey == "JWT_SECRET"
Issuer == "online-store"
SigningMethodHMAC == {"HS256", "HS384", "HS512"}

\* ----------------------------------------------------------------- errors
\* An error is the chain of its causes, outermost first; nil is the empty chain.
Nil == <<>>
ErrNoRows == "sql: no rows in result set"
ErrUnique == "pq: duplicate key value violates unique constraint"
ErrRedis == "redis: connection refused"

Wrap(msg, err) == <<msg>> \o err

Errorf(msg) == <<msg>>

Is(err, target) == \E i \in DOMAIN err : err[i] = target

\* --------------------------------------------------------------- entities
UserInputs(roles, pws) ==
  [email : Emails, role : roles, password : {Plain(p) : p \in pws}]

\* The bodies of POST /auth/login.
LoginRequests == [email : Emails, password : Passwords]

\* Request bodies a client can send for resource type r.
Entities(r) == IF r = "user" THEN UserInputs(Roles, Passwords) ELSE [v : Vals]

\* Product.Price and Order.Total are float64: besides the amounts in whole
\* cents [v |-> n], a caller can pass n cents and a fraction of a cent.
SubCent(r) ==
  IF r \in {"product", "order"} THEN {[v |-> MaxVal, sub |-> TRUE]} ELSE {}

\* Arguments of direct service calls: the role plays no part below the handlers.
ServiceInputs(r) ==
  IF r = "user" THEN UserInputs({"user"}, Passwords)
  ELSE [v : Vals] \cup SubCent(r)

\* Arguments of the calls that run concurrently or against a failing cache.
ConcurrentInputs(r) ==
  IF r = "user" THEN UserInputs({"user"}, {"pw1"}) ELSE [v : Vals]

\* json.Marshal of a row: models.User tags Password `json:"password,omitempty"`.
ToJSON(r, row) ==
  IF r = "user" /\ row.password.text = ""
    THEN [email |-> row.email, role |-> row.role]
    ELSE row

\* json.Unmarshal into a zero-valued struct.
FromJSON(r, j) ==
  IF r = "user" /\ "password" \notin DOMAIN j
    THEN [email |-> j.email, role |-> j.role, password |-> Plain("")]
    ELSE j

\* -------------------------------------------------- what each repository does
\* UpdateX / DeleteX report sql.ErrNoRows when RowsAffected() is 0.
ChecksRowsAffected(r) == r # "order"

\* UpdateX / DeleteX end with redis.Del of "<r>:<id>".
InvalidatesCache(r) == r # "order"

\* The service in front of the repository wraps its error with context (%w).
ServiceWraps(r) == r \in {"user", "product", "comment"}

ServiceError(r, msg, err) ==
  IF err = Nil THEN Nil
  ELSE IF ServiceWraps(r) THEN Wrap(msg, err)
  ELSE err

\* The row a write leaves: products.price and orders.total are DECIMAL(10,2)
\* columns, which keep two fraction digits of the amount.
Store(r, ent) ==
  IF r \in {"product", "order"}
    THEN [f \in DOMAIN ent \ {"sub"} |-> ent[f]]
    ELSE ent

\* A users table without the UNIQUE constraint.
EmailNeverTaken(id, email) == FALSE

\* users.email is UNIQUE: would writing `email` under `id` collide?
EmailTaken(id, email) ==
  \E j \in DOMAIN db : j # id /\ db[j].email = email

\* ------------------------------------------------------------------ tasks
NoEnt == [none |-> TRUE]
NoReq == [none |-> TRUE]
NoCtx == [none |-> TRUE]

Idle == [pc |-> "idle", op |-> "none", id |-> 0, ent |-> NoEnt, out |-> {},
         err |-> Nil, cerr |-> FALSE,
         req |-> NoReq, ctx |-> NoCtx, trace |-> <<>>, status |-> 0]

RowAt(id) == IF id \in DOMAIN db THEN {db[id]} ELSE {}

\* The task with the lowest name; the sequential specifications run it alone.
Main == CHOOSE p \in Tasks : \A q \in Tasks : p <= q

\* Goroutines are anonymous: a new call takes the lowest idle task.
LowestIdle(p) == \A q \in Tasks : q < p => proc[q].pc # "idle"

\* The errors UserService.VerifyPassword makes up itself.
VerifyErrors == {Errorf("user not found"), Errorf("invalid password")}

\* What the handler of resource r writes for the error of its service call.
HandlerStatus(r, op, err) ==
  IF err = Nil
    THEN (IF op = "create" THEN 201 ELSE IF op = "delete" THEN 204 ELSE 200)
  ELSE IF op = "login"
    THEN (IF Is(err, ErrNoRows) \/ err \in VerifyErrors THEN 401 ELSE 500)
  ELSE IF r = "category"
    THEN (IF op = "get" THEN 404 ELSE 500)
  ELSE IF op \in {"get", "update", "delete"} /\ Is(err, ErrNoRows)
    THEN 404
  ELSE 500

\* The call of record rec ends: a direct caller gets (out, err), an HTTP client
\* gets the status its handler derives from err.
Answer(rec, err, out) ==
  [rec EXCEPT !.pc = "done", !.err = err, !.out = out,
              !.status = IF rec.req = NoReq THEN 0
                         ELSE HandlerStatus(rt, rec.op, err)]

Finish(p, err, out) == proc' = [proc EXCEPT ![p] = Answer(proc[p], err, out)]

\* JSON objects of the response body the client of task p reads.
Body(p) ==
  IF proc[p].status \notin {200, 201} THEN {}
  ELSE IF proc[p].op = "login" THEN {[token |-> t] : t \in proc[p].out}
  ELSE {ToJSON(rt, e) : e \in proc[p].out}

NoHist == [w |-> "none", warm |-> FALSE, pw |-> ""]

NoLook == [cold |-> FALSE, other |-> "idle", reads |-> 0]

Init ==
  /\ rt \in ResourceTypes
  /\ db = <<>>
  /\ nextId = 1
  /\ cache = <<>>
  /\ cacheUp = TRUE
  /\ proc = [p \in Tasks |-> Idle]
  /\ hist = [i \in Ids |-> NoHist]
  /\ pre = [p \in Tasks |-> {}]
  /\ look = [p \in Tasks |-> NoLook]

\* ----------------------------------------------------------- service calls
\* A CreateUser that hashes whatever password it is given.
CreateCallUnchecked(p, base, ent) ==
  proc' = [proc EXCEPT ![p] =
    [base EXCEPT !.pc = "insert", !.op = "create",
                 !.ent = IF rt = "user"
                           THEN [ent EXCEPT !.password = GenerateFromPassword(@)]
                           ELSE ent]]

\* XService.CreateX up to the repository call; base carries the HTTP request.
CreateCall(p, base, ent) ==
  IF rt = "user" /\ ent.password.text = ""
    THEN proc' = [proc EXCEPT ![p] =
           Answer([base EXCEPT !.op = "create", !.ent = ent],
                  Errorf("password is required"), {})]
    ELSE proc' = [proc EXCEPT ![p] =
           [base EXCEPT !.pc = "insert", !.op = "create",
                        !.ent = IF rt = "user"
                                  THEN [ent EXCEPT !.password = GenerateFromPassword(@)]
                                  ELSE ent]]

GetCall(p, base, id) ==
  proc' = [proc EXCEPT ![p] = [base EXCEPT !.pc = "cacheGet", !.op = "get", !.id = id]]

ListCall(p, base) ==
  proc' = [proc EXCEPT ![p] = [base EXCEPT !.pc = "list", !.op = "list"]]

\* UserService.UpdateUser hashes a non-empty password; the others pass the entity on.
UpdateCall(p, base, id, ent) ==
  proc' = [proc EXCEPT ![p] =
    [base EXCEPT !.pc = "update", !.op = "update", !.id = id,
                 !.ent = IF rt = "user" /\ ent.password.text # ""
                           THEN [ent EXCEPT !.password = GenerateFromPassword(@)]
                           ELSE ent]]

\* AuthHandler.Login up to its first service call; ent is the LoginRequest.
LoginCall(p, base, req) ==
  proc' = [proc EXCEPT ![p] = [base EXCEPT !.pc = "byEmail", !.op = "login", !.ent = req]]

DeleteCall(p, base, id) ==
  proc' = [proc EXCEPT ![p] = [base EXCEPT !.pc = "delete", !.op = "delete", !.id = id]]

Create(p, In) ==
  /\ proc[p].pc = "idle" /\ LowestIdle(p)
  /\ nextId <= MaxId
  /\ \E ent \in In : CreateCall(p, Idle, ent)
  /\ UNCHANGED <<rt, db, nextId, cache, cacheUp>>

Get(p) ==
  /\ proc[p].pc = "idle" /\ LowestIdle(p)
  /\ \E id \in Ids : GetCall(p, Idle, id)
  /\ UNCHANGED <<rt, db, nextId, cache, cacheUp>>

List(p) ==
  /\ proc[p].pc = "idle" /\ LowestIdle(p)
  /\ ListCall(p, Idle)
  /\ UNCHANGED <<rt, db, nextId, cache, cacheUp>>

Update(p, In) ==
  /\ proc[p].pc = "idle" /\ LowestIdle(p)
  /\ \E id \in Ids, ent \in In : UpdateCall(p, Idle, id, ent)
  /\ UNCHANGED <<rt, db, nextId, cache, cacheUp>>

Delete(p) ==
  /\ proc[p].pc = "idle" /\ LowestIdle(p)
  /\ \E id \in Ids : DeleteCall(p, Idle, id)
  /\ UNCHANGED <<rt, db, nextId, cache, cacheUp>>

VerifyPassword(p) ==
  /\ proc[p].pc = "idle" /\ LowestIdle(p)
  /\ rt = "user"
  /\ \E id \in Ids, pw \in Passwords :
       proc' = [proc EXCEPT ![p] =
         [Idle EXCEPT !.pc = "getpw", !.op = "verify", !.id = id,
                      !.ent = [password |-> pw]]]
  /\ UNCHANGED <<rt, db, nextId, cache, cacheUp>>

\* The caller takes the result.
Return(p) ==
  /\ proc[p].pc = "done"
  /\ proc' = [proc EXCEPT ![p] = Idle]
  /\ UNCHANGED <<rt, db, nextId, cache, cacheUp>>

\* ------------------------------------------------------- repository steps
\* INSERT ... RETURNING id.  The sequence advances even when the insert fails.
CreateInsert(p) ==
  /\ proc[p].pc = "insert"
  /\ nextId' = nextId + 1
  /\ IF rt = "user" /\ EmailTaken(0, proc[p].ent.email)
       THEN /\ Finish(p, ServiceError(rt, "failed to create", <<ErrUnique>>), {})
            /\ UNCHANGED db
       ELSE /\ db' = (nextId :> Store(rt, proc[p].ent)) @@ db
            /\ proc' = [proc EXCEPT ![p] =
                 Answer([proc[p] EXCEPT !.id = nextId], Nil, {proc[p].ent})]
  /\ UNCHANGED <<rt, cache, cacheUp>>

\* A GetX that hands the error of redis.Get to its caller.
GetCacheReadStrict(p) ==
  /\ proc[p].pc = "cacheGet"
  /\ IF ~cacheUp
       THEN proc' = [proc EXCEPT ![p] =
              Answer([proc[p] EXCEPT !.cerr = TRUE],
                     ServiceError(rt, "failed to fetch", <<ErrRedis>>), {})]
       ELSE IF proc[p].id \in DOMAIN cache
         THEN Finish(p, Nil, {FromJSON(rt, cache[proc[p].id])})
         ELSE proc' = [proc EXCEPT ![p].pc = "select"]
  /\ UNCHANGED <<rt, db, nextId, cache, cacheUp>>

\* redis.Get(key): a hit that unmarshals is returned as is; any error is a miss.
GetCacheRead(p) ==
  /\ proc[p].pc = "cacheGet"
  /\ IF cacheUp /\ proc[p].id \in DOMAIN cache
       THEN Finish(p, Nil, {FromJSON(rt, cache[proc[p].id])})
       ELSE proc' = [proc EXCEPT ![p].pc = "select",
                                 ![p].cerr = ~cacheUp]
  /\ UNCHANGED <<rt, db, nextId, cache, cacheUp>>

\* A GetX that caches an empty entity for an id it did not find.
GetStoreReadCachingMiss(p) ==
  /\ proc[p].pc = "select"
  /\ IF proc[p].id \in DOMAIN db
       THEN /\ proc' = [proc EXCEPT ![p].pc = "cacheSet",
                                    ![p].out = {db[proc[p].id]}]
            /\ UNCHANGED cache
       ELSE /\ Finish(p, ServiceError(rt, "not found", <<ErrNoRows>>), {})
            /\ cache' = (proc[p].id :> [v |-> 0]) @@ cache
  /\ UNCHANGED <<rt, db, nextId, cacheUp>>

\* SELECT ... WHERE id = $1
GetStoreRead(p) ==
  /\ proc[p].pc = "select"
  /\ IF proc[p].id \in DOMAIN db
       THEN proc' = [proc EXCEPT ![p].pc = "cacheSet",
                                 ![p].out = {db[proc[p].id]}]
       ELSE Finish(p, ServiceError(rt, "not found", <<ErrNoRows>>), {})
  /\ UNCHANGED <<rt, db, nextId, cache, cacheUp>>

\* A GetX that returns the row it read without caching it.
GetCacheFillSkipped(p) ==
  /\ proc[p].pc = "cacheSet"
  /\ Finish(p, Nil, proc[p].out)
  /\ UNCHANGED <<rt, db, nextId, cache, cacheUp>>

\* redis.Set(key, json, 10 min); its error is dropped.
GetCacheFill(p) ==
  /\ proc[p].pc = "cacheSet"
  /\ LET row == CHOOSE r \in proc[p].out : TRUE IN
       cache' = IF cacheUp
                  THEN (proc[p].id :> ToJSON(rt, row)) @@ cache
                  ELSE cache
  /\ proc' = [proc EXCEPT ![p] =
       Answer([proc[p] EXCEPT !.cerr = @ \/ ~cacheUp], Nil, proc[p].out)]
  /\ UNCHANGED <<rt, db, nextId, cacheUp>>

\* A ListX that prefers the cached copy of a row to the row.
ListQueryThroughCache(p) ==
  /\ proc[p].pc = "list"
  /\ Finish(p, Nil, {IF cacheUp /\ i \in DOMAIN cache
                       THEN FromJSON(rt, cache[i]) ELSE db[i] : i \in DOMAIN db})
  /\ UNCHANGED <<rt, db, nextId, cache, cacheUp>>

\* SELECT ... ORDER BY id: the list methods never touch the cache.
ListQuery(p) ==
  /\ proc[p].pc = "list"
  /\ Finish(p, Nil, {db[i] : i \in DOMAIN db})
  /\ UNCHANGED <<rt, db, nextId, cache, cacheUp>>

\* UPDATE ... WHERE id = $n, then the RowsAffected check.
UpdateExec(p) ==
  /\ proc[p].pc = "update"
  /\ LET id == proc[p].id
         ent == proc[p].ent IN
       IF id \notin DOMAIN db
         THEN /\ IF ChecksRowsAffected(rt)
                   THEN Finish(p, ServiceError(rt, "not found", <<ErrNoRows>>), {})
                   ELSE Finish(p, Nil, {ent})
              /\ UNCHANGED db
       ELSE IF rt = "user" /\ EmailTaken(id, ent.email)
         THEN /\ Finish(p, ServiceError(rt, "failed to update", <<ErrUnique>>), {})
              /\ UNCHANGED db
       ELSE /\ db' = [db EXCEPT ![id] = Store(rt, ent)]
            /\ IF InvalidatesCache(rt)
                 THEN proc' = [proc EXCEPT ![p].pc = "cacheDel", ![p].out = {ent}]
                 ELSE Finish(p, Nil, {ent})
  /\ UNCHANGED <<rt, nextId, cache, cacheUp>>

\* DELETE ... WHERE id = $1, then the RowsAffected check.
DeleteExec(p) ==
  /\ proc[p].pc = "delete"
  /\ LET id == proc[p].id IN
       IF id \notin DOMAIN db
         THEN /\ IF ChecksRowsAffected(rt)
                   THEN Finish(p, ServiceError(rt, "not found", <<ErrNoRows>>), {})
                   ELSE Finish(p, Nil, {})
              /\ UNCHANGED db
         ELSE /\ db' = [j \in DOMAIN db \ {id} |-> db[j]]
              /\ IF InvalidatesCache(rt)
                   THEN proc' = [proc EXCEPT ![p].pc = "cacheDel"]
                   ELSE Finish(p, Nil, {})
  /\ UNCHANGED <<rt, nextId, cache, cacheUp>>

\* redis.Del(key); its error is dropped.
CacheDel(p) ==
  /\ proc[p].pc = "cacheDel"
  /\ cache' = IF cacheUp
                THEN [j \in DOMAIN cache \ {proc[p].id} |-> cache[j]]
                ELSE cache
  /\ proc' = [proc EXCEPT ![p] =
       Answer([proc[p] EXCEPT !.cerr = @ \/ ~cacheUp], Nil, proc[p].out)]
  /\ UNCHANGED <<rt, db, nextId, cacheUp>>

\* SELECT ... FROM users WHERE email = $1: no cache.  Login goes on to
\* VerifyPassword with the id of the row it found.
GetUserByEmail(p) ==
  /\ proc[p].pc = "byEmail"
  /\ LET found == {i \in DOMAIN db : db[i].email = proc[p].ent.email} IN
       IF found = {}
         THEN Finish(p, ServiceError(rt, "user not found", <<ErrNoRows>>), {})
         ELSE LET id == CHOOSE i \in found : TRUE IN
                proc' = [proc EXCEPT ![p].pc = "getpw", ![p].id = id,
                                     ![p].out = {db[id]}]
  /\ UNCHANGED <<rt, db, nextId, cache, cacheUp>>

\* The token Login signs for the user it fetched: HS256 under jwtKey, 24 hours.
SignedString(id, user) ==
  [key |-> jwtKey, alg |-> "HS256", expired |-> FALSE, iss |-> Issuer,
   uid |-> id, email |-> user.email, role |-> user.role]

\* A VerifyPassword that only checks that the user has a password row.
GetUserPasswordUncompared(p) ==
  /\ proc[p].pc = "getpw"
  /\ IF proc[p].id \notin DOMAIN db
       THEN Finish(p, Errorf("user not found"), {})
       ELSE IF proc[p].op = "login"
         THEN Finish(p, Nil, {SignedString(proc[p].id, u) : u \in proc[p].out})
         ELSE Finish(p, Nil, {})
  /\ UNCHANGED <<rt, db, nextId, cache, cacheUp>>

\* SELECT password FROM users WHERE id = $1, then bcrypt.CompareHashAndPassword;
\* Login answers a verified password with the token of the user it fetched.
GetUserPassword(p) ==
  /\ proc[p].pc = "getpw"
  /\ IF proc[p].id \notin DOMAIN db
       THEN Finish(p, Errorf("user not found"), {})
       ELSE IF CompareHashAndPassword(db[proc[p].id].password, proc[p].ent.password)
         THEN IF proc[p].op = "login"
                THEN Finish(p, Nil, {SignedString(proc[p].id, u) : u \in proc[p].out})
                ELSE Finish(p, Nil, {})
         ELSE Finish(p, Errorf("invalid password"), {})
  /\ UNCHANGED <<rt, db, nextId, cache, cacheUp>>

\* ------------------------------------------------------------ environment
\* The 10-minute TTL runs out for an entry that no call in flight is working
\* on: an entry outlives the request that wrote it.
ExpireUnused ==
  /\ \E id \in DOMAIN cache :
       /\ \A p \in Tasks : proc[p].pc = "idle" \/ proc[p].id # id
       /\ cache' = [j \in DOMAIN cache \ {id} |-> cache[j]]
  /\ UNCHANGED <<rt, db, nextId, cacheUp, proc>>

\* The 10-minute TTL of a cache entry runs out.
Expire ==
  /\ \E id \in DOMAIN cache : cache' = [j \in DOMAIN cache \ {id} |-> cache[j]]
  /\ UNCHANGED <<rt, db, nextId, cacheUp, proc>>

CacheFail ==
  /\ cacheUp
  /\ cacheUp' = FALSE
  /\ UNCHANGED <<rt, db, nextId, cache, proc>>

CacheRecover ==
  /\ ~cacheUp
  /\ cacheUp' = TRUE
  /\ UNCHANGED <<rt, db, nextId, cache, proc>>

\* ----------------------------------------------------------- HTTP pipeline
\* A token as the server sees it: who signed it with which algorithm, whether
\* its "exp" has passed, and its claims.
Tokens ==
  [key : {jwtKey, "forged"}, alg : {"HS256", "none"}, expired : BOOLEAN,
   iss : {Issuer, "other"}, uid : Ids, role : Roles]

LoginTokens ==
  {t \in Tokens : t.key = jwtKey /\ t.alg = "HS256" /\ ~t.expired /\ t.iss = Issuer}

\* The Authorization header, split on " " into a scheme and what follows it.
NoHeader == [scheme |-> "", creds |-> <<>>]

Headers ==
  {NoHeader, [scheme |-> "Bearer", creds |-> <<>>]}
    \cup {[scheme |-> "Bearer", creds |-> <<t>>] : t \in Tokens}
    \cup {[scheme |-> "Basic", creds |-> <<t>>] : t \in LoginTokens}
    \cup {[scheme |-> "Bearer", creds |-> <<t, t>>] : t \in LoginTokens}

\* jwt.ParseWithClaims with the key function of AuthMiddleware and the default
\* validator: algorithm family, signature, expiry.
ParseWithClaims(t) ==
  /\ t.alg \in SigningMethodHMAC
  /\ t.key = jwtKey
  /\ ~t.expired

\* An AuthMiddleware that parses whatever follows the first space of the header.
AuthMiddlewareAnyScheme(hdr) ==
  IF hdr = NoHeader \/ hdr.creds = <<>>
    THEN [pass |-> FALSE, status |-> 401, ctx |-> NoCtx]
  ELSE IF ~ParseWithClaims(hdr.creds[1])
    THEN [pass |-> FALSE, status |-> 401, ctx |-> NoCtx]
  ELSE [pass |-> TRUE, status |-> 0,
        ctx |-> [userID |-> hdr.creds[1].uid, userRole |-> hdr.creds[1].role]]

\* An AuthMiddleware that accepts a token only while its account has a row
\* with the role of the token.
AuthMiddlewareOfLiveAccount(hdr) ==
  IF hdr = NoHeader
    THEN [pass |-> FALSE, status |-> 401, ctx |-> NoCtx]
  ELSE IF 1 + Len(hdr.creds) # 2 \/ hdr.scheme # "Bearer"
    THEN [pass |-> FALSE, status |-> 401, ctx |-> NoCtx]
  ELSE IF ~ParseWithClaims(hdr.creds[1])
    THEN [pass |-> FALSE, status |-> 401, ctx |-> NoCtx]
  ELSE IF rt = "user" /\ ~(/\ hdr.creds[1].uid \in DOMAIN db
                            /\ db[hdr.creds[1].uid].role = hdr.creds[1].role)
    THEN [pass |-> FALSE, status |-> 401, ctx |-> NoCtx]
  ELSE [pass |-> TRUE, status |-> 0,
        ctx |-> [userID |-> hdr.creds[1].uid, userRole |-> hdr.creds[1].role]]

AuthMiddleware(hdr) ==
  IF hdr = NoHeader
    THEN [pass |-> FALSE, status |-> 401, ctx |-> NoCtx]
  ELSE IF 1 + Len(hdr.creds) # 2 \/ hdr.scheme # "Bearer"
    THEN [pass |-> FALSE, status |-> 401, ctx |-> NoCtx]
  ELSE IF ~ParseWithClaims(hdr.creds[1])
    THEN [pass |-> FALSE, status |-> 401, ctx |-> NoCtx]
  ELSE [pass |-> TRUE, status |-> 0,
        ctx |-> [userID |-> hdr.creds[1].uid, userRole |-> hdr.creds[1].role]]

AdminMiddleware(ctx) ==
  IF "userRole" \notin DOMAIN ctx \/ ctx.userRole # "admin"
    THEN [pass |-> FALSE, status |-> 403, ctx |-> ctx]
    ELSE [pass |-> TRUE, status |-> 0, ctx |-> ctx]

CorsMiddleware(ctx) == [pass |-> TRUE, status |-> 0, ctx |-> ctx]

\* router.Use / protected.Use / admin.Use of main, outermost first.
Middlewares(group) ==
  IF group = "admin" THEN <<"CorsMiddleware", "AuthMiddleware", "AdminMiddleware">>
  ELSE IF group = "protected" THEN <<"CorsMiddleware", "AuthMiddleware">>
  ELSE <<"CorsMiddleware">>

\* Each middleware either answers the request or calls next.ServeHTTP.
RECURSIVE Through(_, _, _, _)
Through(mws, hdr, ctx, trace) ==
  IF mws = <<>>
    THEN [pass |-> TRUE, status |-> 0, ctx |-> ctx, trace |-> trace]
    ELSE LET r == IF Head(mws) = "AuthMiddleware" THEN AuthMiddleware(hdr)
                  ELSE IF Head(mws) = "AdminMiddleware" THEN AdminMiddleware(ctx)
                  ELSE CorsMiddleware(ctx)
             ran == Append(trace, Head(mws)) IN
           IF r.pass
             THEN Through(Tail(mws), hdr, r.ctx, ran)
             ELSE [pass |-> FALSE, status |-> r.status, ctx |-> r.ctx, trace |-> ran]

\* The routes main registers, by subrouter.
Routes ==
  { [rt |-> "user", method |-> "POST", path |-> "/auth/register", group |-> "public", op |-> "create"],
    [rt |-> "user", method |-> "POST", path |-> "/auth/login", group |-> "public", op |-> "login"],
    [rt |-> "product", method |-> "GET", path |-> "/products", group |-> "public", op |-> "list"],
    [rt |-> "product", method |-> "GET", path |-> "/products/{id}", group |-> "public", op |-> "get"],
    [rt |-> "category", method |-> "GET", path |-> "/categories", group |-> "public", op |-> "list"],
    [rt |-> "category", method |-> "GET", path |-> "/categories/{id}", group |-> "public", op |-> "get"],
    [rt |-> "comment", method |-> "POST", path |-> "/comments", group |-> "protected", op |-> "create"],
    [rt |-> "order", method |-> "POST", path |-> "/orders", group |-> "protected", op |-> "create"],
    [rt |-> "product", method |-> "POST", path |-> "/products", group |-> "admin", op |-> "create"],
    [rt |-> "product", method |-> "PUT", path |-> "/products/{id}", group |-> "admin", op |-> "update"],
    [rt |-> "product", method |-> "DELETE", path |-> "/products/{id}", group |-> "admin", op |-> "delete"],
    [rt |-> "category", method |-> "POST", path |-> "/categories", group |-> "admin", op |-> "create"],
    [rt |-> "category", method |-> "PUT", path |-> "/categories/{id}", group |-> "admin", op |-> "update"],
    [rt |-> "category", method |-> "DELETE", path |-> "/categories/{id}", group |-> "admin", op |-> "delete"],
    [rt |-> "user", method |-> "GET", path |-> "/users", group |-> "admin", op |-> "list"],
    [rt |-> "user", method |-> "PUT", path |-> "/users/{id}", group |-> "admin", op |-> "update"],
    [rt |-> "user", method |-> "DELETE", path |-> "/users/{id}", group |-> "admin", op |-> "delete"] }

\* A request arrives on a registered route: the middlewares of its subrouter run,
\* then its handler decodes the request and calls its service.  Only the parts
\* of the request that the route reads are drawn: the public subrouter never
\* looks at the Authorization header, a collection route has no {id}, a GET or
\* DELETE has no body.
Serve(p, routes, headers, bodies) ==
  /\ proc[p].pc = "idle" /\ LowestIdle(p)
  /\ \E route \in {r \in routes : r.rt = rt} :
     \E hdr \in IF route.group = "public" THEN {NoHeader} ELSE headers,
        id \in IF route.op \in {"get", "update", "delete"} THEN Ids ELSE {0},
        body \in IF route.op \in {"create", "update"} THEN bodies
                 ELSE IF route.op = "login" THEN LoginRequests
                 ELSE {NoEnt} :
       LET res == Through(Middlewares(route.group), hdr, NoCtx, <<>>)
           base == [Idle EXCEPT
                      !.req = [method |-> route.method, path |-> route.path,
                               group |-> route.group, hdr |-> hdr],
                      !.ctx = res.ctx, !.trace = res.trace] IN
         IF ~res.pass
           THEN proc' = [proc EXCEPT ![p] =
                  [base EXCEPT !.pc = "done", !.status = res.status]]
         ELSE IF route.op = "create"
           THEN nextId <= MaxId /\ CreateCall(p, base, body)
         ELSE IF route.op = "get" THEN GetCall(p, base, id)
         ELSE IF route.op = "list" THEN ListCall(p, base)
         ELSE IF route.op = "update" THEN UpdateCall(p, base, id, body)
         ELSE IF route.op = "login" THEN LoginCall(p, base, body)
         ELSE DeleteCall(p, base, id)
  /\ UNCHANGED <<rt, db, nextId, cache, cacheUp>>

ServeRoutes(p, routes) == Serve(p, routes, Headers, Entities(rt))

ServeHTTP(p) == ServeRoutes(p, Routes)

\* The headers of clients that logged in: no header, the tokens Login signs,
\* and such a token after its 24 hours.
SessionHeaders ==
  {NoHeader}
    \cup {[scheme |-> "Bearer", creds |-> <<t>>] : t \in LoginTokens}
    \cup {[scheme |-> "Bearer", creds |-> <<[t EXCEPT !.expired = TRUE]>>] :
            t \in {u \in LoginTokens : u.role = "admin" /\ u.uid = 1}}

\* The routes a client without a token can use.
PublicRoutes == {r \in Routes : r.group = "public"}

\* ------------------------------------------------------- product payloads
\* The JSON bodies of POST /products and PUT /products/{id}, field by field:
\* each string empty or not, each number zero or positive.
ProductForms ==
  [name : {"", "n"}, price : 0..MaxVal, image : {"", "i"}, category_id : 0..1,
   type : {"yarn", "garment", "other"}, composition : {"", "c"},
   country_of_origin : {"", "o"}, length_in_100g : 0..1, size : {"", "s"},
   garment_length : {"", "g"}, color : {"", "k"}]

\* ProductService.validateProduct: the first check that fails, or nil.
validateProduct(f) ==
  IF f.name = "" THEN Errorf("name is required")
  ELSE IF f.price <= 0 THEN Errorf("price must be greater than 0")
  ELSE IF f.image = "" THEN Errorf("image is required")
  ELSE IF f.category_id <= 0 THEN Errorf("category_id must be greater than 0")
  ELSE IF f.type # "yarn" /\ f.type # "garment"
    THEN Errorf("type must be either 'yarn' or 'garment'")
  ELSE IF f.type = "yarn" /\ f.composition = ""
    THEN Errorf("composition is required for yarn products")
  ELSE IF f.type = "yarn" /\ f.country_of_origin = ""
    THEN Errorf("country_of_origin is required for yarn products")
  ELSE IF f.type = "yarn" /\ f.length_in_100g <= 0
    THEN Errorf("length_in_100g must be greater than 0 for yarn products")
  ELSE IF f.type = "yarn" /\ f.color = ""
    THEN Errorf("color is required for yarn products")
  ELSE IF f.type = "garment" /\ f.composition = ""
    THEN Errorf("composition is required for garment products")
  ELSE IF f.type = "garment" /\ f.size = ""
    THEN Errorf("size is required for garment products")
  ELSE IF f.type = "garment" /\ f.garment_length = ""
    THEN Errorf("garment_length is required for garment products")
  ELSE IF f.type = "garment" /\ f.color = ""
    THEN Errorf("color is required for garment products")
  ELSE Nil

\* The row content of a payload that the repository is given: its amount.
ProductEntity(f) == [v |-> f.price]

\* The header of a logged-in administrator.
AdminHeader ==
  [scheme |-> "Bearer",
   creds |-> <<CHOOSE t \in LoginTokens : t.role = "admin">>]

\* A product service that hands every payload of a known type to the repository.
ServeFormUnvalidated(p, Forms) ==
  /\ proc[p].pc = "idle" /\ LowestIdle(p)
  /\ rt = "product"
  /\ \E route \in {r \in Routes : r.rt = rt /\ r.op \in {"create", "update"}} :
     \E id \in IF route.op = "update" THEN Ids ELSE {0}, f \in Forms :
       LET res == Through(Middlewares(route.group), AdminHeader, NoCtx, <<>>)
           base == [Idle EXCEPT
                      !.req = [method |-> route.method, path |-> route.path,
                               group |-> route.group, hdr |-> AdminHeader,
                               form |-> f],
                      !.ctx = res.ctx, !.trace = res.trace,
                      !.op = route.op, !.id = id] IN
         IF f.type # "yarn" /\ f.type # "garment"
           THEN proc' = [proc EXCEPT ![p] =
                  [base EXCEPT !.pc = "done", !.status = 400,
                               !.err = Errorf("Invalid product type: must be 'yarn' or 'garment'")]]
         ELSE IF route.op = "create"
           THEN nextId <= MaxId /\ CreateCall(p, base, ProductEntity(f))
         ELSE UpdateCall(p, base, id, ProductEntity(f))
  /\ UNCHANGED <<rt, db, nextId, cache, cacheUp>>

\* ProductHandler.CreateProduct / UpdateProduct behind the admin middlewares:
\* the handler's own check of the type, then the service, which validates the
\* product before it calls the repository.
ServeForm(p, Forms) ==
  /\ proc[p].pc = "idle" /\ LowestIdle(p)
  /\ rt = "product"
  /\ \E route \in {r \in Routes : r.rt = rt /\ r.op \in {"create", "update"}} :
     \E id \in IF route.op = "update" THEN Ids ELSE {0}, f \in Forms :
       LET res == Through(Middlewares(route.group), AdminHeader, NoCtx, <<>>)
           base == [Idle EXCEPT
                      !.req = [method |-> route.method, path |-> route.path,
                               group |-> route.group, hdr |-> AdminHeader,
                               form |-> f],
                      !.ctx = res.ctx, !.trace = res.trace,
                      !.op = route.op, !.id = id] IN
         IF f.type # "yarn" /\ f.type # "garment"
           THEN proc' = [proc EXCEPT ![p] =
                  [base EXCEPT !.pc = "done", !.status = 400,
                               !.err = Errorf("Invalid product type: must be 'yarn' or 'garment'")]]
         ELSE IF validateProduct(f) # Nil
           THEN proc' = [proc EXCEPT ![p] =
                  Answer(base, Wrap("validation failed", validateProduct(f)), {})]
         ELSE IF route.op = "create"
           THEN nextId <= MaxId /\ CreateCall(p, base, ProductEntity(f))
         ELSE UpdateCall(p, base, id, ProductEntity(f))
  /\ UNCHANGED <<rt, db, nextId, cache, cacheUp>>

ServeProduct(p) == ServeForm(p, ProductForms)

\* The payloads that leave the fields of the other product type empty.
TypedForms ==
  {f \in ProductForms :
     /\ f.type # "yarn" => f.country_of_origin = "" /\ f.length_in_100g = 0
     /\ f.type # "garment" => f.size = "" /\ f.garment_length = ""}

\* --------------------------------------------------------- OPTIONS requests
\* router.Handle("/metrics") and router.PathPrefix("/swagger/"): registered on
\* the root router for every method.
TechnicalPaths == {"/metrics", "/swagger/"}

\* mux's answer to a request whose path is registered for other methods only.
StatusMethodNotAllowed == 405

\* An OPTIONS request arrives.  Every route of the /api subrouters is registered
\* with Methods(...) none of which is OPTIONS: the router finds no match and
\* answers 405 itself, and since it runs the middlewares of a matched route only,
\* neither CorsMiddleware nor the OPTIONS branch of AuthMiddleware is reached.
\* On a technical path the route matches: CorsMiddleware sets its headers and
\* calls the next handler, which answers.
ServeOptions(p) ==
  /\ proc[p].pc = "idle" /\ LowestIdle(p)
  /\ \/ \E route \in {r \in Routes : r.rt = rt}, hdr \in {NoHeader, AdminHeader} :
          proc' = [proc EXCEPT ![p] =
            [Idle EXCEPT !.pc = "done", !.status = StatusMethodNotAllowed,
                         !.req = [method |-> "OPTIONS", path |-> route.path,
                                  group |-> route.group, hdr |-> hdr]]]
     \/ \E path \in TechnicalPaths, hdr \in {NoHeader, AdminHeader} :
          LET res == Through(<<"CorsMiddleware">>, hdr, NoCtx, <<>>) IN
            proc' = [proc EXCEPT ![p] =
              [Idle EXCEPT !.pc = "done", !.status = 200, !.op = "technical",
                           !.req = [method |-> "OPTIONS", path |-> path,
                                    group |-> "technical", hdr |-> hdr],
                           !.ctx = res.ctx, !.trace = res.trace]]
  /\ UNCHANGED <<rt, db, nextId, cache, cacheUp>>

\* ------------------------------------------------------ history variables
\* hist[i]: the last write committed to row i, whether "<rt>:<i>" was cached at
\* that moment, and the last non-empty password a create or update of user i
\* carried.  pre[p]: the row the call of task p found when it began.
Written(i) ==
  IF \E p \in Tasks : proc[p].pc = "insert" /\ i = nextId /\ i \in DOMAIN db'
    THEN "create"
  ELSE IF \E p \in Tasks : /\ proc[p].pc = "update" /\ proc'[p].pc # "update"
                           /\ proc[p].id = i /\ i \in DOMAIN db
                           /\ db'[i] = Store(rt, proc[p].ent)
    THEN "update"
  ELSE IF i \in DOMAIN db /\ i \notin DOMAIN db'
    THEN "delete"
  ELSE "none"

PasswordSet(i) ==
  IF rt # "user" \/ Written(i) = "delete" THEN ""
  ELSE LET p == CHOOSE q \in Tasks : proc'[q] # proc[q] IN
         IF proc[p].ent.password.text = "" THEN hist[i].pw
         ELSE proc[p].ent.password.text

ObserveWrites ==
  hist' = [i \in Ids |->
    IF Written(i) = "none" THEN hist[i]
    ELSE [w |-> Written(i), warm |-> i \in DOMAIN cache, pw |-> PasswordSet(i)]]

ObserveCalls ==
  pre' = [p \in Tasks |->
    IF proc'[p].pc = "idle" THEN {}
    ELSE IF proc[p].pc = "idle" THEN RowAt(proc'[p].id)
    ELSE pre[p]]

\* look[p]: what the call of task p met when it began (no cache entry for its
\* id; the other tasks all idle, some of them in the middle of a call, or
\* waiting with a result), and how many times it has read its row from the store.
Others(p) ==
  IF \A q \in Tasks \ {p} : proc[q].pc = "idle" THEN "idle"
  ELSE IF \E q \in Tasks \ {p} : proc[q].pc \notin {"idle", "done"} THEN "busy"
  ELSE "done"

ObserveOverlap ==
  look' = [p \in Tasks |->
    IF proc'[p].pc = "idle" THEN NoLook
    ELSE IF proc[p].pc = "idle"
      THEN [cold |-> proc'[p].id \notin DOMAIN cache, other |-> Others(p),
            reads |-> 0]
    ELSE IF proc[p].pc = "select" /\ proc'[p].pc # "select"
      THEN [look[p] EXCEPT !.reads = @ + 1]
    ELSE look[p]]

\* What the specifications record: the writes and the rows found, only the rows
\* found, only the overlap of the calls, the rows found and the overlap, or
\* nothing.
Observe == ObserveWrites /\ ObserveCalls /\ UNCHANGED look

ObserveRows == UNCHANGED <<hist, look>> /\ ObserveCalls

ObserveRaces == UNCHANGED <<hist, pre>> /\ ObserveOverlap

ObserveStart == UNCHANGED hist /\ ObserveCalls /\ ObserveOverlap

Unobserved == UNCHANGED <<hist, pre, look>>

\* ---------------------------------------------------------- specifications
\* Concurrent service calls, cache available.
Next ==
  \/ \E p \in Tasks : Create(p, ConcurrentInputs(rt)) /\ Unobserved
  \/ \E p \in Tasks : Get(p) /\ Unobserved
  \/ \E p \in Tasks : List(p) /\ Unobserved
  \/ \E p \in Tasks : Update(p, ConcurrentInputs(rt)) /\ Unobserved
  \/ \E p \in Tasks : Delete(p) /\ Unobserved
  \/ \E p \in Tasks : VerifyPassword(p) /\ Unobserved
  \/ \E p \in Tasks : CreateInsert(p) /\ Unobserved
  \/ \E p \in Tasks : GetCacheRead(p) /\ Unobserved
  \/ \E p \in Tasks : GetStoreRead(p) /\ Unobserved
  \/ \E p \in Tasks : GetCacheFill(p) /\ Unobserved
  \/ \E p \in Tasks : ListQuery(p) /\ Unobserved
  \/ \E p \in Tasks : UpdateExec(p) /\ Unobserved
  \/ \E p \in Tasks : DeleteExec(p) /\ Unobserved
  \/ \E p \in Tasks : CacheDel(p) /\ Unobserved
  \/ \E p \in Tasks : GetUserPassword(p) /\ Unobserved
  \/ \E p \in Tasks : Return(p) /\ Unobserved
  \/ Expire /\ Unobserved

Spec == Init /\ [][Next]_vars

\* The steps of the one task of a sequential specification.
Step ==
  \/ CreateInsert(Main) /\ Observe
  \/ GetCacheRead(Main) /\ Observe
  \/ GetStoreRead(Main) /\ Observe
  \/ GetCacheFill(Main) /\ Observe
  \/ ListQuery(Main) /\ Observe
  \/ UpdateExec(Main) /\ Observe
  \/ DeleteExec(Main) /\ Observe
  \/ CacheDel(Main) /\ Observe
  \/ Return(Main) /\ Observe
  \/ Expire /\ Observe

\* The service calls a direct caller makes, and the step only they lead to.
Call ==
  \/ Create(Main, ServiceInputs(rt)) /\ Observe
  \/ Get(Main) /\ Observe
  \/ List(Main) /\ Observe
  \/ Update(Main, ServiceInputs(rt)) /\ Observe
  \/ Delete(Main) /\ Observe
  \/ VerifyPassword(Main) /\ Observe
  \/ GetUserPassword(Main) /\ Observe

\* The same steps, recording only the rows found, and the calls made while the
\* cache may fail.
StepRows ==
  \/ CreateInsert(Main) /\ ObserveRows
  \/ GetCacheRead(Main) /\ ObserveRows
  \/ GetStoreRead(Main) /\ ObserveRows
  \/ GetCacheFill(Main) /\ ObserveRows
  \/ ListQuery(Main) /\ ObserveRows
  \/ UpdateExec(Main) /\ ObserveRows
  \/ DeleteExec(Main) /\ ObserveRows
  \/ CacheDel(Main) /\ ObserveRows
  \/ Return(Main) /\ ObserveRows
  \/ Expire /\ ObserveRows

CallRows ==
  \/ Create(Main, ConcurrentInputs(rt)) /\ ObserveRows
  \/ Get(Main) /\ ObserveRows
  \/ List(Main) /\ ObserveRows
  \/ Update(Main, ConcurrentInputs(rt)) /\ ObserveRows
  \/ Delete(Main) /\ ObserveRows
  \/ VerifyPassword(Main) /\ ObserveRows
  \/ GetUserPassword(Main) /\ ObserveRows

\* One service call at a time, cache available.
NextSeq == Call \/ Step

SpecSeq == Init /\ [][NextSeq]_vars

\* One service call at a time; the cache may fail and recover at any moment.
NextFault ==
  \/ CallRows
  \/ StepRows
  \/ CacheFail /\ ObserveRows
  \/ CacheRecover /\ ObserveRows

SpecFault == Init /\ [][NextFault]_vars

\* One HTTP request at a time through the router of main, cache available.
NextHttp ==
  \/ ServeHTTP(Main) /\ ObserveRows
  \/ GetUserByEmail(Main) /\ ObserveRows
  \/ GetUserPassword(Main) /\ ObserveRows
  \/ StepRows

SpecHttp == Init /\ [][NextHttp]_vars

\* The requests of clients that hold no token: the public routes only.
NextPublic ==
  \/ ServeRoutes(Main, PublicRoutes) /\ ObserveRows
  \/ GetUserByEmail(Main) /\ ObserveRows
  \/ GetUserPassword(Main) /\ ObserveRows
  \/ CreateInsert(Main) /\ ObserveRows
  \/ GetCacheRead(Main) /\ ObserveRows
  \/ GetStoreRead(Main) /\ ObserveRows
  \/ ListQuery(Main) /\ ObserveRows
  \/ Return(Main) /\ ObserveRows

SpecPublic == Init /\ [][NextPublic]_vars

\* The bodies of POST /comments and POST /orders with the user_id field that
\* models.Comment and models.Order decode from the JSON.
OwnedBodies == [v : Vals, user_id : Ids]

\* Logged-in clients create comments and orders.
NextOwned ==
  \/ Serve(Main, Routes, SessionHeaders, OwnedBodies) /\ ObserveRows
  \/ CreateInsert(Main) /\ ObserveRows
  \/ Return(Main) /\ ObserveRows

InitOwned == Init /\ rt \in {"comment", "order"}

SpecOwned == InitOwned /\ [][NextOwned]_vars

\* The same with the OPTIONS requests a browser sends ahead of a request.
NextRouter ==
  \/ ServeOptions(Main) /\ ObserveRows
  \/ NextHttp

SpecRouter == Init /\ [][NextRouter]_vars

\* Every call has ended, its result taken or not.
AtRest == \A p \in Tasks : proc[p].pc \in {"idle", "done"}

\* No call is in flight; no create, update or delete is in flight.
Quiet == \A q \in Tasks : proc[q].pc = "idle"

NoWrite == \A q \in Tasks : proc[q].op \notin {"create", "update", "delete"}

\* Concurrent gets; a create, update or delete runs alone.
NextReads ==
  \/ \E p \in Tasks : Get(p) /\ NoWrite /\ ObserveRaces
  \/ \E p \in Tasks : GetCacheRead(p) /\ ObserveRaces
  \/ \E p \in Tasks : GetStoreRead(p) /\ ObserveRaces
  \/ \E p \in Tasks : GetCacheFill(p) /\ ObserveRaces
  \/ \E p \in Tasks : Return(p) /\ ObserveRaces
  \/ Create(Main, ConcurrentInputs(rt)) /\ Quiet /\ ObserveRaces
  \/ Update(Main, ConcurrentInputs(rt)) /\ Quiet /\ ObserveRaces
  \/ Delete(Main) /\ Quiet /\ ObserveRaces
  \/ CreateInsert(Main) /\ ObserveRaces
  \/ UpdateExec(Main) /\ ObserveRaces
  \/ DeleteExec(Main) /\ ObserveRaces
  \/ CacheDel(Main) /\ ObserveRaces
  \/ ExpireUnused /\ ObserveRaces

SpecReads == Init /\ [][NextReads]_vars

\* Concurrent gets; a create or delete begins when every other call has ended,
\* so that a get that found nothing can wait with its result while the id it
\* asked for is created.
NextMiss ==
  \/ \E p \in Tasks : Get(p) /\ NoWrite /\ ObserveStart
  \/ \E p \in Tasks : GetCacheRead(p) /\ ObserveStart
  \/ \E p \in Tasks : GetStoreRead(p) /\ ObserveStart
  \/ \E p \in Tasks : GetCacheFill(p) /\ ObserveStart
  \/ \E p \in Tasks : Create(p, ConcurrentInputs(rt)) /\ AtRest /\ ObserveStart
  \/ \E p \in Tasks : Delete(p) /\ AtRest /\ ObserveStart
  \/ \E p \in Tasks : CreateInsert(p) /\ ObserveStart
  \/ \E p \in Tasks : DeleteExec(p) /\ ObserveStart
  \/ \E p \in Tasks : CacheDel(p) /\ ObserveStart
  \/ \E p \in Tasks : Return(p) /\ ObserveStart

SpecMiss == Init /\ [][NextMiss]_vars

\* Concurrent creates and updates of users.
NextWrites ==
  \/ \E p \in Tasks : Create(p, ConcurrentInputs(rt)) /\ ObserveRaces
  \/ \E p \in Tasks : Update(p, ConcurrentInputs(rt)) /\ ObserveRaces
  \/ \E p \in Tasks : CreateInsert(p) /\ ObserveRaces
  \/ \E p \in Tasks : UpdateExec(p) /\ ObserveRaces
  \/ \E p \in Tasks : CacheDel(p) /\ ObserveRaces
  \/ \E p \in Tasks : Return(p) /\ ObserveRaces

InitUsers == Init /\ rt = "user"

SpecWrites == InitUsers /\ [][NextWrites]_vars

\* Requests of logged-in clients to the user routes, one after another; while an
\* answer waits to be read, a client can list the users.
\* The routes a session uses once it has its token.
SessionRoutes == {r \in Routes : r.op # "login"}

ListRoutes == {r \in Routes : r.op = "list"}

\* The bodies of the register and update requests of the sessions.
SessionBodies == UserInputs(Roles, {"pw1"})

NextSessions ==
  \/ Serve(Main, SessionRoutes, SessionHeaders, SessionBodies) /\ ObserveRaces
  \/ \E p \in Tasks \ {Main} :
       Serve(p, ListRoutes, SessionHeaders, {}) /\ AtRest /\ ObserveRaces
  \/ \E p \in Tasks : CreateInsert(p) /\ ObserveRaces
  \/ \E p \in Tasks : ListQuery(p) /\ ObserveRaces
  \/ \E p \in Tasks : UpdateExec(p) /\ ObserveRaces
  \/ \E p \in Tasks : DeleteExec(p) /\ ObserveRaces
  \/ \E p \in Tasks : CacheDel(p) /\ ObserveRaces
  \/ \E p \in Tasks : Return(p) /\ ObserveRaces

SpecSessions == InitUsers /\ [][NextSessions]_vars

\* One product create or update request at a time, every payload.
NextProduct ==
  \/ ServeProduct(Main) /\ ObserveRows
  \/ CreateInsert(Main) /\ ObserveRows
  \/ UpdateExec(Main) /\ ObserveRows
  \/ CacheDel(Main) /\ ObserveRows
  \/ Return(Main) /\ ObserveRows

InitProduct == Init /\ rt = "product"

SpecProduct == InitProduct /\ [][NextProduct]_vars

\* Product create and update requests between the gets that fill the cache.
NextValidate ==
  \/ ServeForm(Main, TypedForms) /\ ObserveRows
  \/ Get(Main) /\ ObserveRows
  \/ GetCacheRead(Main) /\ ObserveRows
  \/ GetStoreRead(Main) /\ ObserveRows
  \/ GetCacheFill(Main) /\ ObserveRows
  \/ CreateInsert(Main) /\ ObserveRows
  \/ UpdateExec(Main) /\ ObserveRows
  \/ CacheDel(Main) /\ ObserveRows
  \/ Return(Main) /\ ObserveRows

SpecValidate == InitProduct /\ [][NextValidate]_vars

\* ------------------------------------------------------------ properties
Returned(p, op) == proc[p].pc = "done" /\ proc[p].op = op

Requested(p) == proc[p].req # NoReq

HandlerRan(p) == Requested(p) /\ proc[p].op # "none"

\* The request of task p carries "Bearer <token>".
HasBearer(p) == proc[p].req.hdr.scheme = "Bearer" /\ Len(proc[p].req.hdr.creds) = 1

Token(p) == proc[p].req.hdr.creds[1]

\* Signed with the server's key by an HMAC method and not expired.
Verified(t) == t.key = jwtKey /\ t.alg \in SigningMethodHMAC /\ ~t.expired

\* A valid token: verified, and issued by this server's login.
Valid(t) == Verified(t) /\ t.iss = Issuer

\* C1: under concurrent get, update and delete of a product, once every request
\* has returned the cache entry of each id is absent or equal to the stored row.
C1_CacheCoherentAtRest ==
  (rt = "product" /\ AtRest) =>
    \A i \in DOMAIN cache : i \in DOMAIN db /\ FromJSON(rt, cache[i]) = db[i]

\* C2: for every resource type, a get that follows a successful update of the
\* same id returns the updated entity, also when the id was cached before.
C2_GetAfterUpdate ==
  \A p \in Tasks :
    (Returned(p, "get") /\ hist[proc[p].id].w = "update") =>
      proc[p].err = Nil /\ proc[p].out = {db[proc[p].id]}

\* C3: for every resource type, a get that follows a successful delete of the
\* same id reports NotFound, also when the id was cached before.
C3_GetAfterDelete ==
  \A p \in Tasks :
    (Returned(p, "get") /\ hist[proc[p].id].w = "delete") =>
      Is(proc[p].err, ErrNoRows) /\ proc[p].out = {}

\* C4: the handler of an admin route runs only for a request whose token is
\* valid and whose role claim is exactly "admin"; a valid token with any other
\* role is answered 403 and the handler does not run.
C4_AdminOnly ==
  \A p \in Tasks :
    (Requested(p) /\ proc[p].req.group = "admin") =>
      /\ HandlerRan(p) =>
           HasBearer(p) /\ Valid(Token(p)) /\ Token(p).role = "admin"
      /\ (HasBearer(p) /\ Valid(Token(p)) /\ Token(p).role # "admin") =>
           proc[p].status = 403 /\ ~HandlerRan(p)

\* The same with the issuer left out of validity: the role check itself.
AdminOnlyVerified ==
  \A p \in Tasks :
    (Requested(p) /\ proc[p].req.group = "admin") =>
      /\ HandlerRan(p) =>
           HasBearer(p) /\ Verified(Token(p)) /\ Token(p).role = "admin"
      /\ (HasBearer(p) /\ Verified(Token(p)) /\ Token(p).role # "admin") =>
           proc[p].status = 403 /\ ~HandlerRan(p)

\* C5: on an admin route a request without a token or with an invalid token is
\* answered 401, never 403, and AdminMiddleware runs only on the role that
\* AuthMiddleware took from the valid token of the same request.
C5_AuthBeforeAdmin ==
  \A p \in Tasks :
    (Requested(p) /\ proc[p].req.group = "admin") =>
      /\ (~HasBearer(p) \/ ~Valid(Token(p))) =>
           proc[p].status = 401 /\ ~HandlerRan(p)
      /\ (\E k \in DOMAIN proc[p].trace : proc[p].trace[k] = "AdminMiddleware") =>
           /\ HasBearer(p) /\ Valid(Token(p))
           /\ "userRole" \in DOMAIN proc[p].ctx
           /\ proc[p].ctx.userRole = Token(p).role

\* The same with the issuer left out of validity: the order of the middlewares.
AuthBeforeAdminVerified ==
  \A p \in Tasks :
    (Requested(p) /\ proc[p].req.group = "admin") =>
      /\ (~HasBearer(p) \/ ~Verified(Token(p))) =>
           proc[p].status = 401 /\ ~HandlerRan(p)
      /\ (\E k \in DOMAIN proc[p].trace : proc[p].trace[k] = "AdminMiddleware") =>
           /\ HasBearer(p) /\ Verified(Token(p))
           /\ "userRole" \in DOMAIN proc[p].ctx
           /\ proc[p].ctx.userRole = Token(p).role

\* C6: AuthMiddleware accepts a token if and only if its signature verifies
\* under the server's key, its method is of the HMAC family, it is not expired
\* and its issuer is "online-store".
C6_AcceptedIffValid ==
  \A p \in Tasks :
    (Requested(p) /\ proc[p].req.group # "public" /\ HasBearer(p)) =>
      ("userRole" \in DOMAIN proc[p].ctx <=> Valid(Token(p)))

\* C7: no response body carries a user's password or password hash.
C7_NoPasswordInBody ==
  \A p \in Tasks :
    (rt = "user" /\ Requested(p)) =>
      \A j \in Body(p) : "password" \notin DOMAIN j

\* C8: VerifyPassword(id, pw) succeeds if and only if pw is the plaintext that
\* the most recent password-setting create or update gave user id.
C8_VerifyIffLastSet ==
  \A p \in Tasks :
    Returned(p, "verify") =>
      (proc[p].err = Nil
         <=> (proc[p].id \in DOMAIN db
                /\ proc[p].ent.password = hist[proc[p].id].pw))

\* C9: for every resource type, a get, update or delete request for an id that
\* does not exist is answered 404.
C9_MissingIs404 ==
  \A p \in Tasks :
    (Requested(p) /\ pre[p] = {} /\
       (Returned(p, "get") \/ Returned(p, "update") \/ Returned(p, "delete"))) =>
      proc[p].status = 404

\* C10: a get, update or delete whose cache call failed gives the result it
\* gives with an empty cache, and never the error of the cache.
C10_CacheFailureInvisible ==
  \A p \in Tasks :
    (proc[p].pc = "done" /\ proc[p].cerr) =>
      /\ ~Is(proc[p].err, ErrRedis)
      /\ Returned(p, "get") =>
           IF pre[p] = {}
             THEN Is(proc[p].err, ErrNoRows) /\ proc[p].out = {}
             ELSE proc[p].err = Nil /\ proc[p].out = pre[p]
      /\ Returned(p, "update") =>
           proc[p].err = Nil /\ RowAt(proc[p].id) = {proc[p].ent}
      /\ Returned(p, "delete") =>
           proc[p].err = Nil /\ pre[p] # {} /\ RowAt(proc[p].id) = {}

C10_Witness ==
  \E p \in Tasks :
    /\ Returned(p, "get") /\ proc[p].cerr /\ ~cacheUp
    /\ proc[p].id \in DOMAIN cache
    /\ proc[p].out = pre[p] /\ pre[p] # {}

\* C12: for every resource type, a delete of an id whose row an earlier delete
\* removed fails with NotFound and leaves the row absent.
C12_SecondDeleteNotFound ==
  \A p \in Tasks :
    (Returned(p, "delete") /\ pre[p] = {} /\ hist[proc[p].id].w = "delete") =>
      Is(proc[p].err, ErrNoRows) /\ RowAt(proc[p].id) = {}

\* C19: the credential of every account, in the store and in every cached
\* copy, is a password that was hashed exactly once, never a plaintext a client
\* supplied at registration or update.
C19_StoredCredentialHashedOnce ==
  rt = "user" =>
    /\ \A i \in DOMAIN db : db[i].password.hashed = 1
    /\ \A i \in DOMAIN cache : FromJSON(rt, cache[i]).password.hashed = 1

\* The fields of an entity that the client supplies.
ClientFields(r, e) ==
  IF r = "user" THEN [email |-> e.email, role |-> e.role] ELSE e

\* C18: for every resource type, a successful create returns a fresh non-zero
\* id under which the submitted client fields are stored, and a get of an id
\* whose last write is its create returns exactly that row.
C18_CreateThenGet ==
  \A p \in Tasks :
    /\ (Returned(p, "create") /\ proc[p].err = Nil) =>
         /\ proc[p].id # 0 /\ proc[p].id = nextId - 1
         /\ \A j \in DOMAIN db : j <= proc[p].id
         /\ hist[proc[p].id].w = "create"
         /\ ClientFields(rt, db[proc[p].id]) = ClientFields(rt, proc[p].ent)
    /\ (Returned(p, "get") /\ hist[proc[p].id].w = "create") =>
         proc[p].err = Nil /\ proc[p].out = {db[proc[p].id]}

\* C17: a request to an authenticated route without an Authorization header,
\* or whose header is not "Bearer" followed by exactly one token, is answered
\* 401; its handler does not run and its context carries no account id or role.
C17_NoBearerIs401 ==
  \A p \in Tasks :
    (Requested(p) /\ proc[p].req.group # "public" /\ ~HasBearer(p)) =>
      proc[p].status = 401 /\ ~HandlerRan(p) /\ proc[p].ctx = NoCtx

C17_Witness ==
  \E p \in Tasks :
    /\ Requested(p) /\ proc[p].req.group = "protected"
    /\ proc[p].req.hdr.scheme = "Basic" /\ Len(proc[p].req.hdr.creds) = 1
    /\ proc[p].status = 401 /\ proc[p].trace = <<"CorsMiddleware", "AuthMiddleware">>

\* C20: a CreateUser with an empty password, also when it comes from POST
\* /auth/register, ends in the step that began it with "password is required":
\* no row is inserted, no id is drawn from the sequence and no cache entry
\* changes.
C20_EmptyPasswordBeforeStore ==
  [][\A p \in Tasks :
       (rt = "user" /\ proc[p].pc = "idle" /\ proc'[p].op = "create"
          /\ proc'[p].ent.password.text = "") =>
         /\ proc'[p].pc = "done"
         /\ proc'[p].err = Errorf("password is required")
         /\ proc'[p].id = 0 /\ proc'[p].out = {}
         /\ UNCHANGED <<db, nextId, cache>>]_vars

C20_Witness ==
  \E p \in Tasks :
    /\ rt = "user" /\ Requested(p) /\ Returned(p, "create")
    /\ proc[p].ent.password.text = ""
    /\ proc[p].status = 500 /\ db # <<>> /\ nextId <= MaxId

\* C16: POST /auth/login answers 200 with a token exactly when a user with the
\* given email exists and the given password verifies against the stored hash;
\* otherwise it answers 401 without a token.  The token is signed by the server
\* and carries the id, email and role of that user's row.
C16_LoginIffCredentials ==
  \A p \in Tasks :
    (Requested(p) /\ Returned(p, "login")) =>
      LET ok == {i \in DOMAIN db :
                   /\ db[i].email = proc[p].ent.email
                   /\ CompareHashAndPassword(db[i].password, proc[p].ent.password)} IN
        IF ok = {}
          THEN proc[p].status = 401 /\ Body(p) = {}
          ELSE /\ proc[p].status = 200
               /\ Body(p) = {[token |-> SignedString(i, db[i])] : i \in ok}
               /\ \A j \in Body(p) : Valid(j.token)

C16_Witness ==
  \E p \in Tasks :
    /\ Requested(p) /\ Returned(p, "login") /\ proc[p].status = 200
    /\ \E j \in Body(p) : j.token.uid = MaxId /\ j.token.role = "admin"

\* The request of task p carries a product payload.
HasForm(p) == Requested(p) /\ "form" \in DOMAIN proc[p].req

\* The violations of the product rules: empty name, non-positive price or
\* category_id, a type other than yarn and garment, a missing field of the type.
Violation(f) ==
  \/ f.name = "" \/ f.price <= 0 \/ f.category_id <= 0
  \/ f.type \notin {"yarn", "garment"}
  \/ f.type = "yarn" /\ (f.composition = "" \/ f.country_of_origin = ""
                          \/ f.length_in_100g <= 0)
  \/ f.type = "garment" /\ (f.composition = "" \/ f.size = ""
                             \/ f.garment_length = "")

\* The request of task p was turned down as invalid.
Rejected(p) ==
  /\ proc[p].pc = "done"
  /\ proc[p].status = 400 \/ Is(proc[p].err, "validation failed")

\* C13: a product create or update whose payload violates a product rule is
\* answered 400 with the reason, never 500.
C13_ViolationIs400 ==
  \A p \in Tasks :
    (HasForm(p) /\ Violation(proc[p].req.form)) =>
      proc[p].pc = "done" /\ proc[p].status = 400 /\ proc[p].err # Nil

\* C14: a product payload is turned down exactly when it violates a product
\* rule; the image is optional.
C14_RejectedIffViolation ==
  \A p \in Tasks :
    HasForm(p) => (Rejected(p) <=> Violation(proc[p].req.form))

\* C11: two overlapping gets of the same existing id that both began with no
\* cache entry for the id, the first with no other call in flight, both return the
\* stored row, read the store once or twice between them, and leave the cache
\* holding that row.
C11_ConcurrentColdGets ==
  \A p, q \in Tasks :
    (/\ p # q /\ Returned(p, "get") /\ Returned(q, "get")
     /\ proc[p].id = proc[q].id
     /\ look[p].other = "idle" /\ look[p].cold /\ look[q].cold
     /\ proc[p].id \in DOMAIN db) =>
      LET id == proc[p].id IN
        /\ proc[p].err = Nil /\ proc[q].err = Nil
        /\ proc[p].out = RowAt(id) /\ proc[q].out = RowAt(id)
        /\ look[p].reads + look[q].reads \in {1, 2}
        /\ id \in DOMAIN cache /\ {FromJSON(rt, cache[id])} = RowAt(id)

C11_Witness ==
  \E p, q \in Tasks :
    /\ p # q /\ Returned(p, "get") /\ Returned(q, "get")
    /\ proc[p].id = proc[q].id
    /\ look[p].other = "idle" /\ look[p].cold /\ look[q].cold
    /\ proc[p].id \in DOMAIN db
    /\ look[p].reads = 1 /\ look[q].reads = 1
    /\ proc[p].id \in DOMAIN cache

C21_InvalidProductNoRepository ==
  [][\A p \in Tasks :
       (/\ proc[p].pc = "idle" /\ proc'[p].req # NoReq
        /\ "form" \in DOMAIN proc'[p].req
        /\ validateProduct(proc'[p].req.form) # Nil) =>
         /\ proc'[p].pc = "done" /\ proc'[p].err # Nil /\ proc'[p].out = {}
         /\ UNCHANGED <<db, nextId, cache>>]_vars

C21_Witness ==
  \E p \in Tasks :
    /\ HasForm(p) /\ Returned(p, "update")
    /\ Is(proc[p].err, "validation failed")
    /\ proc[p].req.form.price = 0
    /\ proc[p].id \in DOMAIN db /\ proc[p].id \in DOMAIN cache
    /\ FromJSON(rt, cache[proc[p].id]) = db[proc[p].id]

\* C22: a cache entry appears or changes only in the SET of a get of that id and
\* disappears only by expiry or in an update or delete of that id; create,
\* update, delete and list never SET a key, and when an update ends with
\* success the cache holds no entry for its id.
C22_CacheWrittenOnlyByGet ==
  [][(\A i \in DOMAIN cache' :
        (i \notin DOMAIN cache \/ cache'[i] # cache[i]) =>
          \E p \in Tasks : /\ proc[p].op = "get" /\ proc[p].pc = "cacheSet"
                            /\ proc[p].id = i)
     /\ (\A i \in DOMAIN cache \ DOMAIN cache' :
           \/ proc' = proc
           \/ \E p \in Tasks : proc[p].op \in {"update", "delete"} /\ proc[p].id = i)
     /\ (\A p \in Tasks :
           (/\ proc[p].op = "update" /\ proc[p].pc # "done"
            /\ proc'[p].pc = "done" /\ proc'[p].err = Nil) =>
             proc[p].id \notin DOMAIN cache')]_vars

\* The get of task p began with neither a cache entry nor a row for its id.
Missed(p) == Returned(p, "get") /\ look[p].cold /\ pre[p] = {}

\* C23: a get of an id that has neither a cache entry nor a row fails with
\* NotFound and caches nothing: as long as no create has produced the id the
\* cache has no entry for it, and a get of that id that begins after the miss,
\* once a create has produced the id, returns the created row.
C23_MissNotCached ==
  \A p \in Tasks :
    Missed(p) =>
      /\ Is(proc[p].err, ErrNoRows) /\ proc[p].out = {}
      /\ proc[p].id >= nextId => proc[p].id \notin DOMAIN cache
      /\ \A q \in Tasks \ {p} :
           (/\ Returned(q, "get") /\ proc[q].id = proc[p].id
            /\ look[q].other = "done" /\ pre[q] # {}) =>
             proc[q].err = Nil /\ proc[q].out = pre[q]

C23_Witness ==
  \E p, q \in Tasks :
    /\ p # q /\ Missed(p) /\ Is(proc[p].err, ErrNoRows)
    /\ Returned(q, "get") /\ proc[q].id = proc[p].id
    /\ look[q].other = "done" /\ look[q].cold /\ look[q].reads = 1
    /\ proc[q].out = RowAt(proc[p].id) /\ pre[q] # {}
    /\ proc[p].id \in DOMAIN cache

\* C24: for every resource type, the store step of an update whose id matches
\* no row ends the update with NotFound, changes no row, and deletes or alters
\* no cache entry.
C24_UpdateOfMissingRow ==
  [][\A p \in Tasks :
       (/\ proc[p].pc = "update" /\ proc'[p] # proc[p]
        /\ proc[p].id \notin DOMAIN db) =>
         /\ proc'[p].pc = "done" /\ Is(proc'[p].err, ErrNoRows)
         /\ UNCHANGED <<db, cache>>]_vars

\* C25: the store step of a list returns without error exactly the rows the
\* store holds at that moment, whatever the cache holds and whether or not the
\* cache can be reached, and leaves the rows and the cache as they were.
C25_ListIsTheStore ==
  [][\A p \in Tasks :
       (proc[p].pc = "list" /\ proc'[p] # proc[p]) =>
         /\ proc'[p].pc = "done" /\ proc'[p].err = Nil /\ ~proc'[p].cerr
         /\ proc'[p].out = {db[i] : i \in DOMAIN db}
         /\ UNCHANGED <<db, cache>>]_vars

C25_Witness ==
  \E p \in Tasks :
    /\ Returned(p, "list") /\ proc[p].err = Nil
    /\ Cardinality(proc[p].out) = 2
    /\ proc[p].out = {db[i] : i \in DOMAIN db}
    /\ \E i \in DOMAIN cache \cap DOMAIN db : FromJSON(rt, cache[i]) # db[i]

\* C26: every OPTIONS request, on a public as on an authenticated route, passes
\* CorsMiddleware, which sets the CORS headers and answers it 200 with an empty
\* body: no later middleware and no handler runs.
C26_OptionsEndAtCors ==
  \A p \in Tasks :
    (Requested(p) /\ proc[p].req.method = "OPTIONS") =>
      /\ proc[p].pc = "done" /\ proc[p].status = 200
      /\ proc[p].trace = <<"CorsMiddleware">>
      /\ ~HandlerRan(p) /\ Body(p) = {}

\* C27: when only the public routes are used, no account carries the role
\* "admin" and no login answers with a token whose role AdminMiddleware accepts.
C27_NoAdminFromPublicRoutes ==
  /\ rt = "user" => \A i \in DOMAIN db : db[i].role # "admin"
  /\ \A p \in Tasks :
       (Requested(p) /\ Returned(p, "login")) =>
         \A j \in Body(p) :
           ~AdminMiddleware([userID |-> j.token.uid, userRole |-> j.token.role]).pass

\* The request of task p went through AuthMiddleware.
Authenticated(p) == Requested(p) /\ proc[p].req.group # "public"

\* What the pipeline decided for the request of task p: whether it was let
\* through, the middlewares that ran, and the account id and role it injected.
Decision(p) ==
  [rejected |-> proc[p].status \in {401, 403}, trace |-> proc[p].trace,
   ctx |-> proc[p].ctx]

\* C28: two requests to the same route group that present the same token get
\* the same decision and the same injected account id and role, whatever
\* happened to the rows between them; and the decision for a token is the one
\* its signature and expiry alone give.
C28_AuthIgnoresStore ==
  \A p \in Tasks :
    Authenticated(p) =>
      /\ (proc[p].status # 401) <=>
           (HasBearer(p) /\ Verified(Token(p)))
      /\ proc[p].status # 401 =>
           proc[p].ctx = [userID |-> Token(p).uid, userRole |-> Token(p).role]
      /\ \A q \in Tasks :
           (/\ Authenticated(q) /\ proc[q].req.hdr = proc[p].req.hdr
            /\ proc[q].req.group = proc[p].req.group) =>
             Decision(q) = Decision(p)

C28_Witness ==
  \E p, q \in Tasks :
    /\ p # q /\ Authenticated(p) /\ Authenticated(q)
    /\ proc[q].req.hdr = proc[p].req.hdr /\ HasBearer(p)
    /\ Returned(p, "delete") /\ proc[p].err = Nil /\ proc[p].id = Token(p).uid
    /\ look[q].other = "done" /\ Returned(q, "list")
    /\ proc[q].status = 200 /\ proc[q].ctx.userID \notin DOMAIN db

\* C29: a comment or order created through POST /comments or POST /orders is
\* stored with the user_id of the verified token of its request, whatever
\* user_id its body carried.
C29_OwnerIsTokenAccount ==
  \A p \in Tasks :
    (/\ Requested(p) /\ Returned(p, "create") /\ proc[p].status = 201
     /\ rt \in {"comment", "order"}) =>
      /\ proc[p].id \in DOMAIN db
      /\ db[proc[p].id].user_id = Token(p).uid
      /\ db[proc[p].id].user_id = proc[p].ctx.userID

\* C30: an UpdateUser with an empty password field leaves the stored hash of
\* the account as it was, and no account ever has an empty stored credential.
C30_EmptyPasswordKeepsHash ==
  [][rt = "user" =>
       /\ \A p \in Tasks :
            (/\ proc[p].pc = "update" /\ proc'[p] # proc[p]
             /\ proc[p].ent.password.text = ""
             /\ proc[p].id \in DOMAIN db) =>
              db'[proc[p].id].password = db[proc[p].id].password
       /\ \A i \in DOMAIN db' : db'[i].password.text # ""]_vars

====
